---------------------------- MODULE Spec2Model ----------------------------
(***************************************************************************)
(* A model of run_FullRecall.py: the BERT fine-tuning runner for           *)
(* query/passage relevance.  Three parts of the program are modelled, each *)
(* with its own specification over the shared variables:                   *)
(*                                                                         *)
(*   SpecConvert    convert_examples_to_features,                          *)
(*                  convert_examples_to_relevance_features and             *)
(*                  _truncate_seq_pair, on a one-example list;             *)
(*   SpecProcessor  DataProcessor._read_tsv and the four processors'       *)
(*                  _create_examples;                                      *)
(*   Spec           main(): argument validation, the training loop and the *)
(*                  evaluation loop, with the output directory.            *)
(*                                                                         *)
(* SpecPairFair is the pair conversion of SpecConvert run to completion,   *)
(* for the termination of _truncate_seq_pair.                              *)
(*                                                                         *)
(* Python lists are sequences; a Python index i is the TLA+ index i + 1.   *)
(***************************************************************************)
EXTENDS Integers, Sequences, FiniteSets, TLC

VARIABLES
    \* ---- the feature converters (lines 248-412) ----
    converter,        \* which converter runs: "features" or "relevance"
    max_seq_length,   \* the max_seq_length argument
    label_list,       \* the label_list argument
    label_map,        \* label_map, once built (line 251 / 332)
    example_label,    \* example.label of the one example
    text_b_given,     \* truthiness of example.text_b (line 258)
    tokenized_a,      \* what tokenizer.tokenize(example.text_a) returned
    tokenized_b,      \* what tokenizer.tokenize(example.text_b) returned
    tokens_a,         \* the local list tokens_a
    tokens_b,         \* the local list tokens_b (<<>> while it is None)
    features,         \* the list features
    conv_pc,          \* position in the converter
    conv_raised,      \* the exception that ended the converter, or "none"
    \* ---- the data processors (lines 88-246) ----
    processor,        \* the task whose processor runs
    set_type,         \* the split asked for: "train", "dev" or "test"
    input_file,       \* the file handed to _read_tsv
    lines,            \* what _read_tsv returned
    row_i,            \* the loop index i of _create_examples
    examples,         \* the list examples
    proc_pc,          \* position in the processor
    proc_raised,      \* the exception that ended it, or NoError
    \* ---- main (lines 419-808) ----
    args,             \* the parsed arguments
    out_dir,          \* the output directory on disk
    train,            \* the locals of the training part of main
    eval,             \* the locals of the evaluation part of main
    effects,          \* what the run has done outside the output directory
    pc,               \* position in main
    raised            \* the exception that ended main, or "none"

convVars == <<converter, max_seq_length, label_list, label_map, example_label,
              text_b_given, tokenized_a, tokenized_b, tokens_a, tokens_b,
              features, conv_pc, conv_raised>>
procVars == <<processor, set_type, input_file, lines, row_i, examples, proc_pc, proc_raised>>
mainVars == <<args, out_dir, train, eval, effects, pc, raised>>
vars == <<convVars, procVars, mainVars>>

(***************************************************************************)
(* Bounds of the model.                                                    *)
(***************************************************************************)
MaxTokens == 3        \* longest tokenizer output
MaxSeqLength == 5     \* largest max_seq_length
MaxRows == 3          \* most rows of a .tsv file
MaxColumns == 10      \* most columns of a row
MaxEpochsX2 == 4      \* largest num_train_epochs, in halves
MaxGradAccum == 2     \* largest gradient_accumulation_steps
MaxTrainBatch == 3    \* largest train_batch_size
MaxEvalBatch == 2     \* largest eval_batch_size
MaxTrainExamples == 4 \* most rows of train.tsv
MaxEvalExamples == 3  \* most rows of dev.tsv and of test.tsv

\* The columns of a TextQnA row: query, passage, label (line 219).
TextQnAColumns == 3

(***************************************************************************)
(* Python's list operations.                                               *)
(***************************************************************************)
Min(a, b) == IF a <= b THEN a ELSE b
Max(a, b) == IF a >= b THEN a ELSE b

\* s[:k]: the first k elements; a negative k counts from the end.
PySliceTo(s, k) ==
    IF k >= 0 THEN SubSeq(s, 1, Min(k, Len(s)))
    ELSE SubSeq(s, 1, Max(Len(s) + k, 0))

\* [x] * n: n copies of x, none when n <= 0.
PyRepeat(x, n) == [i \in 1..Max(n, 0) |-> x]

\* s after s.pop(); the caller raises IndexError on an empty list.
PyPop_Keep(s) == s

PyPop(s) == SubSeq(s, 1, Len(s) - 1)

Range(s) == {s[i] : i \in 1..Len(s)}

IsDuplicateFree(s) == \A i, j \in 1..Len(s) : s[i] = s[j] => i = j

(***************************************************************************)
(* The inputs of the converters.                                           *)
(***************************************************************************)
Words == {"w1", "w2"}

SeqsUpTo(S, n) == UNION {[1..k -> S] : k \in 0..n}

TokenSeqs == SeqsUpTo(Words, MaxTokens)

NoLabel == "None"

\* get_labels of ColaProcessor, MrpcProcessor and TextQnA, and of MnliProcessor.
BinaryLabels == <<"0", "1">>
MnliLabels == <<"contradiction", "entailment", "neutral">>

LabelLists == {BinaryLabels, MnliLabels}

ExampleLabels == {"1", "neutral", NoLabel}

(***************************************************************************)
(* The tokenizer's id mapping (BERT.tokenization, not part of the source   *)
(* at hand): one id per token, 0 kept for padding.                         *)
(***************************************************************************)
VocabId(t) ==
    CASE t = "[CLS]" -> 101
      [] t = "[SEP]" -> 102
      [] t = "w1" -> 7
      [] t = "w2" -> 8

ConvertTokensToIds(tokens) == [i \in 1..Len(tokens) |-> VocabId(tokens[i])]

(***************************************************************************)
(* label_map = {label : i for i, label in enumerate(label_list)}: a later  *)
(* occurrence of a label overwrites an earlier one.                        *)
(***************************************************************************)
RECURSIVE LabelMapUpTo(_, _)
LabelMapUpTo(list, n) ==
    IF n = 0 THEN [l \in {} |-> 0]
    ELSE LET m == LabelMapUpTo(list, n - 1)
         IN  [l \in DOMAIN m \cup {list[n]} |->
                 IF l = list[n] THEN n - 1 ELSE m[l]]

LabelMap_OneBased(list) ==
    [l \in Range(list) |-> CHOOSE i \in 1..Len(list) : list[i] = l]

LabelMap(list) == LabelMapUpTo(list, Len(list))

(***************************************************************************)
(* The feature converters.  The tokenizer is a collaborator: what it       *)
(* returns for a text is any token sequence of the bounded set.            *)
(***************************************************************************)
ConvInit ==
    /\ converter \in {"features", "relevance"}
    /\ max_seq_length \in 0..MaxSeqLength
    /\ label_list \in LabelLists
    /\ example_label \in ExampleLabels
    /\ text_b_given \in BOOLEAN
    /\ (converter = "relevance" => text_b_given)
    /\ label_map = [l \in {} |-> 0]
    /\ tokenized_a = <<>>
    /\ tokenized_b = <<>>
    /\ tokens_a = <<>>
    /\ tokens_b = <<>>
    /\ features = <<>>
    /\ conv_pc = "start"
    /\ conv_raised = "none"

ConvIdle ==
    /\ converter = "none"
    /\ max_seq_length = 0
    /\ label_list = <<>>
    /\ example_label = NoLabel
    /\ text_b_given = FALSE
    /\ label_map = [l \in {} |-> 0]
    /\ tokenized_a = <<>>
    /\ tokenized_b = <<>>
    /\ tokens_a = <<>>
    /\ tokens_b = <<>>
    /\ features = <<>>
    /\ conv_pc = "idle"
    /\ conv_raised = "none"

ConvInputs == <<converter, max_seq_length, label_list, example_label, text_b_given>>

\* Lines 266-267: the truncation of a single sequence, leaving room for
\* [CLS] and [SEP].
TruncateSingle_RoomForOne(toks, n) ==
    IF Len(toks) > n - 1 THEN PySliceTo(toks, n - 1) ELSE toks

TruncateSingle(toks, n) ==
    IF Len(toks) > n - 2 THEN PySliceTo(toks, n - 2) ELSE toks

\* convert_examples_to_features, lines 251-267: the label map, tokenization
\* and, for a single sequence, the truncation to max_seq_length - 2.
FeaturesTokenize ==
    /\ conv_pc = "start"
    /\ converter = "features"
    /\ label_map' = LabelMap(label_list)
    /\ \E ta \in TokenSeqs :
          /\ tokenized_a' = ta
          /\ IF text_b_given
             THEN \E tb \in TokenSeqs :
                     /\ tokenized_b' = tb
                     /\ tokens_a' = ta
                     /\ tokens_b' = tb
                     /\ conv_pc' = "truncate"
             ELSE /\ tokenized_b' = <<>>
                  /\ tokens_b' = <<>>
                  /\ tokens_a' = TruncateSingle(ta, max_seq_length)
                  /\ conv_pc' = "build"
    /\ UNCHANGED <<ConvInputs, features, conv_raised>>

\* One pass of the while loop of _truncate_seq_pair(tokens_a, tokens_b,
\* max_length), lines 405-412.
PopsFromA_TiesToA(a, b) == Len(a) >= Len(b)

PopsFromA(a, b) == Len(a) > Len(b)

FitsBudget_OffByOne(a, b, max_length) == Len(a) + Len(b) <= max_length + 1

FitsBudget(a, b, max_length) == Len(a) + Len(b) <= max_length

TruncateSeqPair(max_length) ==
    IF FitsBudget(tokens_a, tokens_b, max_length)
    THEN /\ conv_pc' = "build"
         /\ UNCHANGED <<tokens_a, tokens_b, conv_raised>>
    ELSE IF PopsFromA(tokens_a, tokens_b)
    THEN /\ tokens_a' = PyPop(tokens_a)
         /\ UNCHANGED <<tokens_b, conv_pc, conv_raised>>
    ELSE IF tokens_b = <<>>
    THEN /\ conv_raised' = "IndexError"
         /\ conv_pc' = "raised"
         /\ UNCHANGED <<tokens_a, tokens_b>>
    ELSE /\ tokens_b' = PyPop(tokens_b)
         /\ UNCHANGED <<tokens_a, conv_pc, conv_raised>>

\* The call at line 263.
TruncateStep ==
    /\ conv_pc = "truncate"
    /\ TruncateSeqPair(max_seq_length - 3)
    /\ UNCHANGED <<ConvInputs, label_map, tokenized_a, tokenized_b, features>>

\* The three length assertions of a record (lines 306-308, 371-376).
LengthAsserts_Off(fields, n) == TRUE

LengthAsserts(fields, n) == \A i \in 1..Len(fields) : Len(fields[i]) = n

\* Zero-padding of one field (lines 301-304, 360-369).
ZeroPad_Ones(field, n) == field \o PyRepeat(1, n)

ZeroPad(field, n) == field \o PyRepeat(0, n)

\* Lines 287-304: the record's three fields from the truncated tokens.
InputFields_OneSegment(ta, tb, withB, n) ==
    LET tokens0 == <<"[CLS]">> \o ta \o <<"[SEP]">>
        tokens == IF withB THEN tokens0 \o tb \o <<"[SEP]">> ELSE tokens0
        ids == ConvertTokensToIds(tokens)
        padding == n - Len(ids)
    IN  [input_ids |-> ZeroPad(ids, padding),
         input_mask |-> ZeroPad(PyRepeat(1, Len(ids)), padding),
         segment_ids |-> ZeroPad(PyRepeat(0, Len(ids)), padding)]

InputFields(ta, tb, withB, n) ==
    LET tokens0 == <<"[CLS]">> \o ta \o <<"[SEP]">>
        segs0 == PyRepeat(0, Len(tokens0))
        tokens == IF withB THEN tokens0 \o tb \o <<"[SEP]">> ELSE tokens0
        segs == IF withB THEN segs0 \o PyRepeat(1, Len(tb) + 1) ELSE segs0
        ids == ConvertTokensToIds(tokens)
        mask == PyRepeat(1, Len(ids))
        padding == n - Len(ids)
    IN  [input_ids |-> ZeroPad(ids, padding),
         input_mask |-> ZeroPad(mask, padding),
         segment_ids |-> ZeroPad(segs, padding)]

\* convert_examples_to_features, lines 287-326: build, pad, assert, look the
\* label up and append the record.
FeaturesEmit ==
    /\ conv_pc = "build"
    /\ converter = "features"
    /\ LET f == InputFields(tokens_a, tokens_b,
                            text_b_given /\ tokens_b # <<>>, max_seq_length)
       IN  IF ~LengthAsserts(<<f.input_ids, f.input_mask, f.segment_ids>>,
                             max_seq_length)
           THEN /\ conv_raised' = "AssertionError"
                /\ conv_pc' = "raised"
                /\ UNCHANGED features
           ELSE IF example_label \notin DOMAIN label_map
           THEN /\ conv_raised' = "KeyError"
                /\ conv_pc' = "raised"
                /\ UNCHANGED features
           ELSE /\ features' = Append(features,
                       [input_ids |-> f.input_ids,
                        input_mask |-> f.input_mask,
                        segment_ids |-> f.segment_ids,
                        label_id |-> label_map[example_label]])
                /\ conv_pc' = "done"
                /\ UNCHANGED conv_raised
    /\ UNCHANGED <<ConvInputs, label_map, tokenized_a, tokenized_b,
                   tokens_a, tokens_b>>

\* Lines 338-339 and 342-343: one side's own truncation.
TruncateSide_Shared(toks, other, n) ==
    PySliceTo(toks, Max(n - 2 - Len(other), 0))

TruncateSide(toks, other, n) ==
    IF Len(toks) > n - 2 THEN PySliceTo(toks, n - 2) ELSE toks

\* convert_examples_to_relevance_features, lines 332-343.
RelevanceTokenize ==
    /\ conv_pc = "start"
    /\ converter = "relevance"
    /\ label_map' = LabelMap(label_list)
    /\ \E ta \in TokenSeqs, tb \in TokenSeqs :
          /\ tokenized_a' = ta
          /\ tokenized_b' = tb
          /\ tokens_a' = TruncateSide(ta, tb, max_seq_length)
          /\ tokens_b' = TruncateSide(tb, ta, max_seq_length)
    /\ conv_pc' = "build"
    /\ UNCHANGED <<ConvInputs, features, conv_raised>>

\* convert_examples_to_relevance_features, lines 345-394.
RelevanceEmit ==
    /\ conv_pc = "build"
    /\ converter = "relevance"
    /\ LET q == InputFields(tokens_a, <<>>, FALSE, max_seq_length)
           p == InputFields(tokens_b, <<>>, FALSE, max_seq_length)
       IN  IF ~LengthAsserts(<<q.input_ids, q.input_mask, q.segment_ids,
                               p.input_ids, p.input_mask, p.segment_ids>>,
                             max_seq_length)
           THEN /\ conv_raised' = "AssertionError"
                /\ conv_pc' = "raised"
                /\ UNCHANGED features
           ELSE IF example_label \notin DOMAIN label_map
           THEN /\ conv_raised' = "KeyError"
                /\ conv_pc' = "raised"
                /\ UNCHANGED features
           ELSE /\ features' = Append(features,
                       [query_ids |-> q.input_ids,
                        psg_ids |-> p.input_ids,
                        query_mask |-> q.input_mask,
                        psg_mask |-> p.input_mask,
                        query_segment_ids |-> q.segment_ids,
                        psg_segment_ids |-> p.segment_ids,
                        label_id |-> label_map[example_label]])
                /\ conv_pc' = "done"
                /\ UNCHANGED conv_raised
    /\ UNCHANGED <<ConvInputs, label_map, tokenized_a, tokenized_b,
                   tokens_a, tokens_b>>

(***************************************************************************)
(* The data processors.  A file is its rows; the cell in row i, column c   *)
(* (both counted from 0, as Python does) holds the value <<i, c>>, so an   *)
(* example shows which cells it was built from.                            *)
(***************************************************************************)
Tasks == {"cola", "mnli", "mrpc", "textqna"}

Row(i, width) == [c \in 1..width |-> <<i, c - 1>>]

Files ==
    UNION {{[r \in 1..n |-> Row(r - 1, w[r])] : w \in [1..n -> 0..MaxColumns]}
           : n \in 0..MaxRows}

\* line[k] is defined for -len(line) <= k < len(line).
PyIndexOk(s, k) == -Len(s) <= k /\ k < Len(s)

PyIndex(s, k) == IF k >= 0 THEN s[k + 1] ELSE s[Len(s) + k + 1]

NoText == <<"None">>

\* An exception: its type, and the file and the row its message names
\* ("none" and -1 when it names none).
NoError == [type |-> "none", file |-> "none", row |-> -1]

\* The file each get_*_examples opens (lines 121-132, 156-166, 190-200,
\* 221-231).
FileOf(task, split) ==
    IF task = "mnli" /\ split = "dev" THEN "dev_matched.tsv"
    ELSE IF split = "train" THEN "train.tsv"
    ELSE IF split = "dev" THEN "dev.tsv"
    ELSE "test.tsv"

SetTypeOf(task, split) ==
    IF task = "mnli" /\ split = "dev" THEN "dev_matched" ELSE split

\* Whether _create_examples skips row 0 (lines 142-143, 176-177).
SkipsHeader_Never(task) == FALSE

SkipsHeader(task) == task \in {"mrpc", "mnli"}

\* The indices a processor reads from a row, in the order it reads them.
IndicesRead(task) ==
    CASE task = "mrpc" -> <<3, 4, 0>>
      [] task = "mnli" -> <<0, 8, 9, -1>>
      [] task = "cola" -> <<3, 1>>
      [] task = "textqna" -> <<0, 1, 2>>

RowReadable(task, line) ==
    \A n \in 1..Len(IndicesRead(task)) : PyIndexOk(line, IndicesRead(task)[n])

\* The InputExample a processor builds from row i (lines 144-149, 178-183,
\* 210-214, 241-245).
ExampleOf(task, st, i, line) ==
    CASE task = "mrpc" ->
            [guid |-> <<st, i>>, text_a |-> PyIndex(line, 3),
             text_b |-> PyIndex(line, 4), label |-> PyIndex(line, 0)]
      [] task = "mnli" ->
            [guid |-> <<st, PyIndex(line, 0)>>, text_a |-> PyIndex(line, 8),
             text_b |-> PyIndex(line, 9), label |-> PyIndex(line, -1)]
      [] task = "cola" ->
            [guid |-> <<st, i>>, text_a |-> PyIndex(line, 3),
             text_b |-> NoText, label |-> PyIndex(line, 1)]
      [] task = "textqna" ->
            [guid |-> <<st, i>>, text_a |-> PyIndex(line, 0),
             text_b |-> PyIndex(line, 1), label |-> PyIndex(line, 2)]

ProcInit ==
    /\ processor \in Tasks
    /\ set_type \in {"train", "dev", "test"}
    /\ input_file = "none"
    /\ lines = <<>>
    /\ row_i = 0
    /\ examples = <<>>
    /\ proc_pc = "start"
    /\ proc_raised = NoError

ProcIdle ==
    /\ processor = "none"
    /\ set_type = "none"
    /\ input_file = "none"
    /\ lines = <<>>
    /\ row_i = 0
    /\ examples = <<>>
    /\ proc_pc = "idle"
    /\ proc_raised = NoError

\* get_train_examples / get_dev_examples / get_test_examples up to the
\* return of _read_tsv (lines 107-115): the rows of the file, or the error
\* of open() when there is no such file.
ReadTsv ==
    /\ proc_pc = "start"
    /\ input_file' = FileOf(processor, set_type)
    /\ set_type' = SetTypeOf(processor, set_type)
    /\ \/ /\ lines' \in Files
          /\ proc_pc' = "loop"
          /\ UNCHANGED proc_raised
       \/ /\ proc_raised' = [type |-> "FileNotFoundError",
                             file |-> input_file', row |-> -1]
          /\ proc_pc' = "raised"
          /\ UNCHANGED lines
    /\ UNCHANGED <<processor, row_i, examples>>

\* One pass of the for loop of _create_examples.
CreateExamplesStep ==
    /\ proc_pc = "loop"
    /\ row_i < Len(lines)
    /\ LET line == lines[row_i + 1]
       IN  IF SkipsHeader(processor) /\ row_i = 0
           THEN /\ row_i' = row_i + 1
                /\ UNCHANGED <<examples, proc_pc, proc_raised>>
           ELSE IF ~RowReadable(processor, line)
           THEN /\ proc_raised' = [type |-> "IndexError", file |-> "none",
                                 row |-> -1]
                /\ proc_pc' = "raised"
                /\ UNCHANGED <<examples, row_i>>
           ELSE /\ examples' = Append(examples,
                                      ExampleOf(processor, set_type, row_i, line))
                /\ row_i' = row_i + 1
                /\ UNCHANGED <<proc_pc, proc_raised>>
    /\ UNCHANGED <<processor, set_type, input_file, lines>>

\* return examples (lines 150, 184, 215, 246).
CreateExamplesReturn ==
    /\ proc_pc = "loop"
    /\ row_i = Len(lines)
    /\ proc_pc' = "returned"
    /\ UNCHANGED <<processor, set_type, input_file, lines, row_i, examples,
                   proc_raised>>

(***************************************************************************)
(* main().  One process (local_rank = -1), fp16 off.  num_train_epochs is  *)
(* a float: args holds twice its value, so that halves are exact.  The     *)
(* example lists are their lengths; the output directory is the set of     *)
(* snapshot indices k of its files pytorch_model_<k>.bin, the blocks of    *)
(* its eval_results.txt, and whether it holds any other file.              *)
(***************************************************************************)
TaskNames == {"TextQnA", "sts-b"}

\* args.task_name.lower(), line 554.
Lower(name) ==
    CASE name = "TextQnA" -> "textqna"
      [] OTHER -> name

\* int(x) of a non-negative float x = num / den: the floor of the exact
\* quotient (the float quotient rounds to the same integer for every value
\* within the model's bounds).
PyInt(num, den) == num \div den

\* int(args.num_train_epochs), lines 652 and 730.
IntEpochs(a) == PyInt(a.num_train_epochs_x2, 2)

\* A DataLoader over n items in batches of bs (lines 649, 708, 728): its
\* number of batches, and the items of batch k (from 0) in sampler order.
NumBatches(n, bs) == (n + bs - 1) \div bs

BatchItems(n, bs, k) == [j \in 1..Min(bs, n - k * bs) |-> k * bs + j]

\* metrics.calAUC over the collected scores: a value the model leaves
\* uninterpreted.
CalAUC(scores) == <<"AUC", scores>>

EarlierBlock ==
    [cur_epoch |-> 0, eval_AUC |-> <<"AUC", <<>>>>, eval_counts |-> 1,
     test_AUC |-> <<"AUC", <<>>>>, test_counts |-> 1]

AbsentDir ==
    [exists |-> FALSE, checkpoints |-> {}, eval_results |-> <<>>, other |-> FALSE]

OutDirs ==
    {AbsentDir}
    \cup {[exists |-> TRUE, checkpoints |-> {}, eval_results |-> <<>>, other |-> o]
          : o \in BOOLEAN}
    \cup {[exists |-> TRUE, checkpoints |-> c, eval_results |-> r, other |-> FALSE]
          : c \in (SUBSET (0..(MaxEpochsX2 \div 2 - 1))) \ {{}},
            r \in {<<>>, <<EarlierBlock>>}}

\* os.path.exists(output_dir) and os.listdir(output_dir), line 550.
ListDirNonEmpty(d) ==
    d.exists /\ (d.checkpoints # {} \/ d.eval_results # <<>> \/ d.other)

NoTrain ==
    [n_train |-> 0, num_train_steps |-> -1, t_total |-> -1, global_step |-> 0,
     nb_tr_steps |-> 0, train_epoch |-> 0, epoch |-> 0, step |-> 0,
     pending_grads |-> 0, lr_multiplier |-> <<0, 1>>]

NoEval ==
    [n_dev |-> 0, n_test |-> 0, cur_epoch |-> 0, loaded |-> -1, batch |-> 0,
     eval_score_list |-> <<>>, test_score_list |-> <<>>,
     nb_eval_examples |-> 0, nb_test_examples |-> 0]

MainInit ==
    /\ args \in [gradient_accumulation_steps : 0..MaxGradAccum,
                 train_batch_size : 1..MaxTrainBatch,
                 eval_batch_size : 1..MaxEvalBatch,
                 num_train_epochs_x2 : 0..MaxEpochsX2,
                 do_train : BOOLEAN,
                 do_eval : BOOLEAN,
                 task_name : TaskNames]
    /\ out_dir \in OutDirs
    /\ train = NoTrain
    /\ eval = NoEval
    /\ effects = [out_dir_at_start |-> out_dir, files_read |-> {},
                  model_loads |-> 0, optimizer_steps |-> 0, zero_grads |-> 0,
                  saved |-> <<>>, loaded |-> <<>>]
    /\ pc = "check_gas"
    /\ raised = "none"

MainIdle ==
    /\ args = [task_name |-> "none"]
    /\ out_dir = AbsentDir
    /\ train = NoTrain
    /\ eval = NoEval
    /\ effects = [files_read |-> {}]
    /\ pc = "idle"
    /\ raised = "none"

Raise(exc) ==
    /\ raised' = exc
    /\ pc' = "raised"

\* Lines 535-539.
GradAccumInvalid_Negative(a) == a.gradient_accumulation_steps < 0

GradAccumInvalid(a) == a.gradient_accumulation_steps < 1

CheckGradAccum ==
    /\ pc = "check_gas"
    /\ IF GradAccumInvalid(args)
       THEN Raise("ValueError") /\ UNCHANGED args
       ELSE IF args.gradient_accumulation_steps = 0
       THEN Raise("ZeroDivisionError") /\ UNCHANGED args
       ELSE /\ args' = [args EXCEPT !.train_batch_size =
                           PyInt(args.train_batch_size,
                                 args.gradient_accumulation_steps)]
            /\ pc' = "check_mode"
            /\ UNCHANGED raised
    /\ UNCHANGED <<out_dir, train, eval, effects>>

\* Lines 547-548.
CheckMode ==
    /\ pc = "check_mode"
    /\ IF ~args.do_train /\ ~args.do_eval
       THEN Raise("ValueError")
       ELSE pc' = "check_dir" /\ UNCHANGED raised
    /\ UNCHANGED <<args, out_dir, train, eval, effects>>

\* Lines 550-552: the non-empty check, then os.makedirs(exist_ok=True).
CheckOutputDir ==
    /\ pc = "check_dir"
    /\ IF ListDirNonEmpty(out_dir) /\ args.do_train
       THEN Raise("ValueError") /\ UNCHANGED out_dir
       ELSE /\ out_dir' = [out_dir EXCEPT !.exists = TRUE]
            /\ pc' = "check_task"
            /\ UNCHANGED raised
    /\ UNCHANGED <<args, train, eval, effects>>

\* Lines 554-561.
CheckTask ==
    /\ pc = "check_task"
    /\ IF Lower(args.task_name) \notin Tasks
       THEN Raise("ValueError")
       ELSE pc' = "load_train" /\ UNCHANGED raised
    /\ UNCHANGED <<args, out_dir, train, eval, effects>>

\* Lines 563-570: with do_train, read train.tsv and compute
\* num_train_steps = int(len(train_examples) / train_batch_size /
\* gradient_accumulation_steps * num_train_epochs).
NumTrainSteps(n, a) ==
    PyInt(n * a.num_train_epochs_x2,
          2 * a.train_batch_size * a.gradient_accumulation_steps)

LoadTrainExamples ==
    /\ pc = "load_train"
    /\ IF ~args.do_train
       THEN /\ pc' = "prepare"
            /\ UNCHANGED <<train, effects, raised>>
       ELSE \E n \in 1..MaxTrainExamples :
               /\ effects' = [effects EXCEPT !.files_read = @ \cup {"train.tsv"}]
               /\ IF args.train_batch_size = 0
                  THEN /\ Raise("ZeroDivisionError")
                       /\ train' = [train EXCEPT !.n_train = n]
                  ELSE /\ train' = [train EXCEPT
                                      !.n_train = n,
                                      !.num_train_steps = NumTrainSteps(n, args)]
                       /\ pc' = "prepare"
                       /\ UNCHANGED raised
    /\ UNCHANGED <<args, out_dir, eval>>

\* Lines 572-624: load the pretrained model, build the optimizer with
\* t_total = num_train_steps, zero the counters.
PrepareModel ==
    /\ pc = "prepare"
    /\ effects' = [effects EXCEPT !.model_loads = @ + 1]
    /\ train' = [train EXCEPT !.t_total = train.num_train_steps,
                              !.global_step = 0, !.nb_tr_steps = 0,
                              !.train_epoch = 0]
    /\ pc' = IF args.do_train THEN "epoch" ELSE "eval_gate"
    /\ UNCHANGED <<args, out_dir, eval, raised>>

TrainBatches == NumBatches(train.n_train, args.train_batch_size)

\* Line 652-654: the next epoch of the for loop, or the end of training.
EpochBegin ==
    /\ pc = "epoch"
    /\ IF train.epoch < IntEpochs(args)
       THEN /\ train' = [train EXCEPT !.nb_tr_steps = 0, !.step = 0]
            /\ pc' = "batch"
       ELSE /\ pc' = "eval_gate"
            /\ UNCHANGED train
    /\ UNCHANGED <<args, out_dir, eval, effects, raised>>

\* Line 673: whether the optimizer steps after the batch with index step.
StepsOptimizer_ZeroBased(step, n) == step % n = 0

StepsOptimizer(step, n) == (step + 1) % n = 0

\* args.warmup_proportion, in hundredths (its default 0.1, line 478).
WarmupPercent == 10

\* Lines 414-417 at the call of line 675: warmup_linear(global_step /
\* t_total, warmup_proportion) for t_total > 0, as the fraction <<numerator,
\* denominator>> with a positive denominator.
WarmupLinear(global_step, t_total) ==
    IF global_step * 100 < WarmupPercent * t_total
    THEN <<global_step * 100, WarmupPercent * t_total>>
    ELSE <<t_total - global_step, t_total>>

\* Lines 655-680: one batch: forward, backward, and every
\* gradient_accumulation_steps batches the learning rate (a division by
\* t_total), optimizer.step(), optimizer.zero_grad() and global_step += 1.
TrainBatch ==
    /\ pc = "batch"
    /\ train.step < TrainBatches
    /\ LET after == [train EXCEPT !.pending_grads = @ + 1,
                                  !.nb_tr_steps = @ + 1]
       IN  IF ~StepsOptimizer(train.step, args.gradient_accumulation_steps)
           THEN /\ train' = [after EXCEPT !.step = @ + 1]
                /\ UNCHANGED <<effects, pc, raised>>
           ELSE IF train.t_total = 0
           THEN /\ train' = after
                /\ Raise("ZeroDivisionError")
                /\ UNCHANGED effects
           ELSE /\ train' = [after EXCEPT
                               !.lr_multiplier =
                                   WarmupLinear(train.global_step, train.t_total),
                               !.pending_grads = 0,
                               !.global_step = @ + 1,
                               !.step = @ + 1]
                /\ effects' = [effects EXCEPT !.optimizer_steps = @ + 1,
                                              !.zero_grads = @ + 1]
                /\ UNCHANGED <<pc, raised>>
    /\ UNCHANGED <<args, out_dir, eval>>

\* Line 655: the batches of the epoch are exhausted.
EpochBatchesDone ==
    /\ pc = "batch"
    /\ train.step = TrainBatches
    /\ pc' = "save"
    /\ UNCHANGED <<args, out_dir, train, eval, effects, raised>>

\* Line 684: the index in the snapshot's file name.
SnapshotIndex_Fixed(t) == 0

SnapshotIndex(t) == t.train_epoch

\* Lines 682-687: torch.save to pytorch_model_<train_epoch>.bin.
SaveModel ==
    /\ pc = "save"
    /\ out_dir' = [out_dir EXCEPT !.checkpoints = @ \cup {SnapshotIndex(train)}]
    /\ effects' = [effects EXCEPT !.saved = Append(@, SnapshotIndex(train))]
    /\ train' = [train EXCEPT !.train_epoch = @ + 1, !.epoch = @ + 1]
    /\ pc' = "epoch"
    /\ UNCHANGED <<args, eval, raised>>

\* Lines 689-728: with do_eval, read dev.tsv and test.tsv and build the two
\* sequential loaders.
EvalSetup ==
    /\ pc = "eval_gate"
    /\ IF ~args.do_eval
       THEN /\ pc' = "done"
            /\ UNCHANGED <<eval, effects>>
       ELSE \E nd \in 1..MaxEvalExamples, nt \in 1..MaxEvalExamples :
               /\ eval' = [eval EXCEPT !.n_dev = nd, !.n_test = nt]
               /\ effects' = [effects EXCEPT
                                !.files_read = @ \cup {"dev.tsv", "test.tsv"}]
               /\ pc' = "eval_epoch"
    /\ UNCHANGED <<args, out_dir, train, raised>>

\* Line 733: the index in the name of the checkpoint file to load.
CheckpointToLoad_OneBased(e) == e.cur_epoch + 1

CheckpointToLoad(e) == e.cur_epoch

\* Lines 730-743: the next checkpoint of the for loop: torch.load of
\* pytorch_model_<cur_epoch>.bin, or the end of main.
LoadCheckpoint ==
    /\ pc = "eval_epoch"
    /\ IF eval.cur_epoch >= IntEpochs(args)
       THEN /\ pc' = "done"
            /\ UNCHANGED <<eval, effects, raised>>
       ELSE IF CheckpointToLoad(eval) \notin out_dir.checkpoints
       THEN /\ Raise("FileNotFoundError")
            /\ UNCHANGED <<eval, effects>>
       ELSE /\ eval' = [eval EXCEPT !.loaded = CheckpointToLoad(eval),
                                    !.batch = 0,
                                    !.eval_score_list = <<>>,
                                    !.nb_eval_examples = 0]
            /\ effects' = [effects EXCEPT
                             !.model_loads = @ + 1,
                             !.loaded = Append(@, CheckpointToLoad(eval))]
            /\ pc' = "eval_batch"
            /\ UNCHANGED raised
    /\ UNCHANGED <<args, out_dir, train>>

\* Lines 760 and 787: the scores of a batch under the loaded checkpoint.
Scores(ck, items) == [j \in 1..Len(items) |-> <<ck, items[j]>>]

\* Lines 763 and 790: what a batch adds to the example count.
CountOf(items) == Len(items)

\* Lines 745-764: one batch of the dev loader.
EvalBatch ==
    /\ pc = "eval_batch"
    /\ eval.batch < NumBatches(eval.n_dev, args.eval_batch_size)
    /\ LET items == BatchItems(eval.n_dev, args.eval_batch_size, eval.batch)
       IN  eval' = [eval EXCEPT
                      !.eval_score_list = @ \o Scores(eval.loaded, items),
                      !.nb_eval_examples = @ + CountOf(items),
                      !.batch = @ + 1]
    /\ UNCHANGED <<args, out_dir, train, effects, pc, raised>>

\* Lines 766-770: the dev loader is exhausted; the test counters start.
EvalBatchesDone ==
    /\ pc = "eval_batch"
    /\ eval.batch = NumBatches(eval.n_dev, args.eval_batch_size)
    /\ eval' = [eval EXCEPT !.batch = 0, !.test_score_list = <<>>,
                            !.nb_test_examples = 0]
    /\ pc' = "test_batch"
    /\ UNCHANGED <<args, out_dir, train, effects, raised>>

\* Lines 772-791: one batch of the test loader.
TestBatch ==
    /\ pc = "test_batch"
    /\ eval.batch < NumBatches(eval.n_test, args.eval_batch_size)
    /\ LET items == BatchItems(eval.n_test, args.eval_batch_size, eval.batch)
       IN  eval' = [eval EXCEPT
                      !.test_score_list = @ \o Scores(eval.loaded, items),
                      !.nb_test_examples = @ + CountOf(items),
                      !.batch = @ + 1]
    /\ UNCHANGED <<args, out_dir, train, effects, pc, raised>>

\* Line 803: open(output_eval_file, "a+") and the writes of one block.
WriteBlock_Truncating(file, block) == <<block>>

WriteBlock(file, block) == Append(file, block)

\* Lines 793-808: the result of the checkpoint, appended to
\* eval_results.txt.
WriteResult ==
    /\ pc = "test_batch"
    /\ eval.batch = NumBatches(eval.n_test, args.eval_batch_size)
    /\ LET result == [cur_epoch |-> eval.cur_epoch,
                      eval_AUC |-> CalAUC(eval.eval_score_list),
                      eval_counts |-> eval.nb_eval_examples,
                      test_AUC |-> CalAUC(eval.test_score_list),
                      test_counts |-> eval.nb_test_examples]
       IN  out_dir' = [out_dir EXCEPT
                         !.eval_results = WriteBlock(@, result)]
    /\ eval' = [eval EXCEPT !.cur_epoch = @ + 1]
    /\ pc' = "eval_epoch"
    /\ UNCHANGED <<args, train, effects, raised>>

(***************************************************************************)
(* Properties of the feature converters, checked under SpecConvert.        *)
(***************************************************************************)
Converted == conv_pc = "done"

Truncated == conv_pc \in {"build", "done", "raised"} /\ conv_raised # "IndexError"

FixedFields(f) ==
    IF converter = "features"
    THEN <<f.input_ids, f.input_mask, f.segment_ids>>
    ELSE <<f.query_ids, f.query_mask, f.query_segment_ids,
           f.psg_ids, f.psg_mask, f.psg_segment_ids>>

\* C1: every fixed-length field of every record in features has length
\* exactly max_seq_length, for both converters; a conversion that returns
\* has emitted its record, and one whose fields would have another length
\* ends in AssertionError with nothing emitted.
C1_FieldLengths ==
    /\ \A i \in 1..Len(features) :
          \A k \in 1..Len(FixedFields(features[i])) :
             Len(FixedFields(features[i])[k]) = max_seq_length
    /\ Converted => Len(features) = 1
    /\ conv_raised # "none" => features = <<>>

C1_Witness ==
    /\ Converted
    /\ converter = "relevance"
    /\ Len(features) = 1
    /\ Len(tokenized_a) > max_seq_length - 2
    /\ Len(tokenized_b) < max_seq_length - 2

\* C2 as stated: in a single-sequence conversion the truncation leaves at
\* most max_seq_length - 2 tokens in tokens_a, for every max_seq_length.
C2_Original ==
    (converter = "features" /\ ~text_b_given /\ Truncated)
        => Len(tokens_a) <= max_seq_length - 2

\* C2 as amended: the same bound for every max_seq_length >= 2 (below 2 the
\* bound is negative and no list meets it).
C2_SingleTruncation ==
    (converter = "features" /\ ~text_b_given /\ Truncated
                            /\ max_seq_length >= 2)
        => Len(tokens_a) <= max_seq_length - 2

C2_Witness ==
    /\ Converted
    /\ converter = "features"
    /\ ~text_b_given
    /\ Len(tokenized_a) > max_seq_length - 2
    /\ Len(tokens_a) = max_seq_length - 2

\* C3: in a pair conversion, once _truncate_seq_pair(tokens_a, tokens_b,
\* max_seq_length - 3) has returned, len(tokens_a) + len(tokens_b) is at
\* most max_seq_length - 3.
C3_PairBudget ==
    (converter = "features" /\ text_b_given /\ Truncated)
        => Len(tokens_a) + Len(tokens_b) <= max_seq_length - 3

C3_Witness ==
    /\ Converted
    /\ converter = "features"
    /\ text_b_given
    /\ Len(tokenized_a) + Len(tokenized_b) > max_seq_length - 3
    /\ Len(tokens_a) + Len(tokens_b) = max_seq_length - 3
    /\ tokens_a # <<>>
    /\ tokens_b # <<>>

Prefix(s, n) == SubSeq(s, 1, n)

Wrapped(toks) == ConvertTokensToIds(<<"[CLS]">> \o toks \o <<"[SEP]">>)

\* C4: in the relevance converter each side keeps exactly the first
\* min(len, max_seq_length - 2) of its own tokens, whatever the other side
\* holds, and the emitted record carries them; when max_seq_length < 2 that
\* number is negative and the conversion ends in AssertionError instead.
C4_IndependentSides ==
    converter = "relevance" =>
        /\ (Truncated /\ max_seq_length >= 2) =>
              /\ tokens_a = Prefix(tokenized_a,
                                   Min(Len(tokenized_a), max_seq_length - 2))
              /\ tokens_b = Prefix(tokenized_b,
                                   Min(Len(tokenized_b), max_seq_length - 2))
        /\ Converted =>
              /\ max_seq_length >= 2
              /\ Prefix(features[1].query_ids, Len(tokens_a) + 2) = Wrapped(tokens_a)
              /\ Prefix(features[1].psg_ids, Len(tokens_b) + 2) = Wrapped(tokens_b)
        /\ (conv_pc = "raised" /\ max_seq_length < 2) =>
              conv_raised = "AssertionError"

C4_Witness ==
    /\ Converted
    /\ converter = "relevance"
    /\ Len(tokenized_a) < max_seq_length - 2
    /\ Len(tokenized_b) > max_seq_length - 2
    /\ Len(tokenized_a) + Len(tokenized_b) > max_seq_length - 3
    /\ tokens_a = tokenized_a
    /\ Len(tokens_b) = max_seq_length - 2

\* C5: once built from a duplicate-free label list, label_map is a
\* bijection from the labels onto 0..len(label_list)-1 sending each label to
\* its position; with label list ["0", "1"] an example labelled "1" gets
\* label_id 1.
C5_LabelMapBijection ==
    (conv_pc # "start" /\ IsDuplicateFree(label_list)) =>
        /\ DOMAIN label_map = Range(label_list)
        /\ \A i \in 1..Len(label_list) : label_map[label_list[i]] = i - 1
        /\ {label_map[l] : l \in DOMAIN label_map} = 0..(Len(label_list) - 1)
        /\ \A l, m \in DOMAIN label_map : label_map[l] = label_map[m] => l = m
        /\ (Converted /\ label_list = <<"0", "1">> /\ example_label = "1")
              => features[1].label_id = 1

C5_Witness ==
    /\ Converted
    /\ label_list = <<"0", "1">>
    /\ example_label = "1"
    /\ features[1].label_id = 1

PairConversion == converter = "features" /\ text_b_given

\* C11: an example whose label is null is converted by
\* convert_examples_to_relevance_features into a feature record without an
\* error (max_seq_length leaving room for the two markers).
C11_NullLabelConverted ==
    (converter = "relevance" /\ example_label = NoLabel /\ max_seq_length >= 2
                             /\ conv_pc \in {"done", "raised"})
        => (conv_raised = "none" /\ Len(features) = 1)

Budget == max_seq_length - 3

\* One pass of the greedy policy from the lists a, b to the primed lists.
GreedyPass ==
    IF Len(tokens_a) + Len(tokens_b) <= Budget
    THEN tokens_a' = tokens_a /\ tokens_b' = tokens_b
    ELSE IF Len(tokens_a) > Len(tokens_b)
    THEN /\ tokens_a' = Prefix(tokens_a, Len(tokens_a) - 1)
         /\ tokens_b' = tokens_b
    ELSE IF tokens_b # <<>>
    THEN /\ tokens_b' = Prefix(tokens_b, Len(tokens_b) - 1)
         /\ tokens_a' = tokens_a
    ELSE conv_raised' = "IndexError"

\* C13: _truncate_seq_pair is the greedy policy: each pass removes the last
\* token of tokens_a when it is the strictly longer list and otherwise the
\* last token of tokens_b, and nothing when the pair fits; the lists stay
\* prefixes of the tokenizer's output; with a non-negative budget the final
\* combined length is min(original combined length, budget).
C13_GreedyTruncation ==
    /\ [][conv_pc = "truncate" => GreedyPass]_vars
    /\ [](PairConversion =>
            /\ tokens_a = Prefix(tokenized_a, Len(tokens_a))
            /\ tokens_b = Prefix(tokenized_b, Len(tokens_b))
            /\ (Truncated /\ Budget >= 0) =>
                  Len(tokens_a) + Len(tokens_b) =
                      Min(Len(tokenized_a) + Len(tokenized_b), Budget)
            /\ (Truncated /\ Len(tokenized_a) + Len(tokenized_b) <= Budget) =>
                  tokens_a = tokenized_a /\ tokens_b = tokenized_b)

C13_Witness ==
    /\ Converted
    /\ PairConversion
    /\ max_seq_length = 5
    /\ Len(tokenized_a) = 3
    /\ Len(tokenized_b) = 3
    /\ Len(tokens_a) = 1
    /\ Len(tokens_b) = 1

\* The layout of a single sequence of kept tokens toks in its three fields.
SingleLayout(ids, mask, segs, toks) ==
    LET n == Len(toks)
    IN  /\ Prefix(ids, n + 2) = Wrapped(toks)
        /\ \A i \in 1..Len(mask) : mask[i] = IF i <= n + 2 THEN 1 ELSE 0
        /\ \A i \in (n + 3)..Len(ids) : ids[i] = 0
        /\ \A i \in (n + 3)..Len(segs) : segs[i] = 0

\* C14: the record of a single-sequence conversion with n tokens kept has
\* the ids of [CLS], the n tokens and [SEP] in positions 0..n+1, input_mask
\* 1 on exactly those positions and 0 after, and input_ids and segment_ids
\* 0 on every position after n+1; the query fields and the passage fields
\* of a relevance record each have this layout.
C14_SingleLayout ==
    Converted =>
        IF converter = "features"
        THEN ~text_b_given =>
                SingleLayout(features[1].input_ids, features[1].input_mask,
                             features[1].segment_ids, tokens_a)
        ELSE /\ SingleLayout(features[1].query_ids, features[1].query_mask,
                             features[1].query_segment_ids, tokens_a)
             /\ SingleLayout(features[1].psg_ids, features[1].psg_mask,
                             features[1].psg_segment_ids, tokens_b)

C14_Witness ==
    /\ Converted
    /\ converter = "relevance"
    /\ max_seq_length = 4
    /\ Len(tokens_a) = 1
    /\ Len(tokens_b) = 2
    /\ features[1].query_mask = <<1, 1, 1, 0>>
    /\ features[1].psg_mask = <<1, 1, 1, 1>>

Ones(s) == Cardinality({i \in 1..Len(s) : s[i] = 1})

\* The layout of a pair: segment 0 up to the first separator, segment 1 on
\* the second sequence and the final separator, 0 on padding.
PairLayout(f) ==
    LET na == Len(tokens_a)
        nb == Len(tokens_b)
    IN  /\ \A i \in 1..Len(f.segment_ids) :
              f.segment_ids[i] =
                  IF na + 3 <= i /\ i <= na + nb + 3 THEN 1 ELSE 0
        /\ Ones(f.segment_ids) = nb + 1
        /\ Ones(f.input_mask) = na + nb + 3

\* C15 as stated: the record of every pair conversion by
\* convert_examples_to_features has segment_ids 0 on [CLS], the first
\* sequence and the first [SEP], 1 on the len(tokens_b) + 1 positions of the
\* second sequence and the final [SEP], 0 on padding, and len(tokens_a) +
\* len(tokens_b) + 3 mask ones.
C15_Original == (Converted /\ PairConversion) => PairLayout(features[1])

\* C15 as amended: that layout when tokens_b is non-empty after truncation;
\* when it is empty the record is the single sequence's, with no position
\* marked 1 and len(tokens_a) + 2 mask ones.
C15_PairSegments ==
    (Converted /\ PairConversion) =>
        IF tokens_b # <<>>
        THEN PairLayout(features[1])
        ELSE /\ Ones(features[1].segment_ids) = 0
             /\ Ones(features[1].input_mask) = Len(tokens_a) + 2

C15_Witness ==
    /\ Converted
    /\ PairConversion
    /\ max_seq_length = 5
    /\ Len(tokenized_b) = 3
    /\ features[1].segment_ids = <<0, 0, 0, 1, 1>>

\* C19: _truncate_seq_pair terminates: every pass that stays in the loop
\* makes the combined length strictly smaller, and the loop is always left,
\* either with the combined length within the budget or, the budget being
\* negative, with IndexError on removing from an empty list.
C19_TruncationTerminates ==
    /\ [][(conv_pc = "truncate" /\ conv_pc' = "truncate") =>
             Len(tokens_a') + Len(tokens_b') < Len(tokens_a) + Len(tokens_b)]_vars
    /\ (conv_pc = "truncate") ~>
          \/ conv_pc = "build" /\ Len(tokens_a) + Len(tokens_b) <= Budget
          \/ conv_raised = "IndexError" /\ Budget < 0
    /\ [](conv_raised = "IndexError" =>
            Budget < 0 /\ tokens_a = <<>> /\ tokens_b = <<>>)

C19_Witness ==
    /\ conv_raised = "IndexError"
    /\ Len(tokenized_a) = 3
    /\ Len(tokenized_b) = 2
    /\ max_seq_length = 2

(***************************************************************************)
(* Properties of the data processors, checked under SpecProcessor.         *)
(***************************************************************************)
\* A row whose column count is not the layout's: for TextQnA any count but
\* three; for the other formats, too few columns for the cells read.
Malformed(task, line) ==
    IF task = "textqna" THEN Len(line) # TextQnAColumns
    ELSE ~RowReadable(task, line)

DataRows == {i \in 1..Len(lines) : ~(SkipsHeader(processor) /\ i = 1)}

\* C7: a malformed row makes _create_examples fail with an error that
\* identifies the file and the row: an example list is returned only when
\* no row is malformed, and the error raised on a row names the file and
\* that row.
C7_MalformedRowFails ==
    /\ proc_pc = "returned" =>
          \A i \in DataRows : ~Malformed(processor, lines[i])
    /\ proc_raised.type = "IndexError" =>
          proc_raised.file = input_file /\ proc_raised.row = row_i

\* C16: header handling is per format.  For a file of R rows MrpcProcessor
\* and MnliProcessor skip row 0 and return R - 1 examples (none when
\* R <= 1); ColaProcessor and TextQnA skip nothing and return R examples;
\* the examples are in file order, each built from its own row.
C16_HeaderPerFormat ==
    LET R == Len(lines)
        skips == processor \in {"mrpc", "mnli"}
        row(k) == IF skips THEN k ELSE k - 1
    IN  /\ proc_pc = "returned" =>
              Len(examples) = IF skips THEN Max(R - 1, 0) ELSE R
        /\ \A k \in 1..Len(examples) :
              /\ examples[k].text_a[1] = row(k)
              /\ examples[k].label[1] = row(k)
              /\ examples[k] =
                    ExampleOf(processor, set_type, row(k), lines[row(k) + 1])

C16_Witness ==
    /\ proc_pc = "returned"
    /\ processor = "mrpc"
    /\ Len(lines) = 3
    /\ Len(lines[1]) = 0
    /\ Len(examples) = 2
    /\ examples[2].text_a = <<2, 3>>

(***************************************************************************)
(* Properties of main, checked under Spec.                                 *)
(***************************************************************************)
AtStart == effects.out_dir_at_start

Epochs == args.num_train_epochs_x2 \div 2

Validating == pc \in {"check_gas", "check_mode", "check_dir", "check_task"}

Rejected ==
    \/ args.gradient_accumulation_steps < 1
    \/ ~args.do_train /\ ~args.do_eval
    \/ args.do_train /\ ListDirNonEmpty(AtStart)
    \/ Lower(args.task_name) \notin Tasks

\* C6: a run whose arguments are rejected (gradient_accumulation_steps < 1,
\* neither do_train nor do_eval, do_train with a non-empty output directory,
\* an unregistered task) never leaves validation except by ValueError, and
\* has read no example file, loaded no model, taken no training step and
\* written no snapshot.
C6_ValidationFailsFast ==
    Rejected =>
        /\ Validating \/ pc = "raised"
        /\ pc = "raised" => raised = "ValueError"
        /\ effects.files_read = {}
        /\ effects.model_loads = 0
        /\ train.nb_tr_steps = 0
        /\ effects.optimizer_steps = 0
        /\ effects.saved = <<>>
        /\ out_dir.checkpoints = AtStart.checkpoints

C6_Witness ==
    /\ pc = "raised"
    /\ raised = "ValueError"
    /\ args.gradient_accumulation_steps >= 1
    /\ args.do_train
    /\ ~ListDirNonEmpty(AtStart)
    /\ Lower(args.task_name) \notin Tasks

CountsUp(s) == \A i \in 1..Len(s) : s[i] = i - 1

AfterTraining == pc \in {"eval_gate", "eval_epoch", "eval_batch", "test_batch", "done"}

\* C8: a training run saves one snapshot per epoch, named 0, 1, ... in
\* order: while the batches of epoch k run exactly the snapshots 0..k-1 are
\* written, snapshot k is written once all batches of epoch k are done, and
\* after training the snapshots written, and those in the directory, are
\* exactly 0..E-1 for E = int(num_train_epochs).
C8_SnapshotPerEpoch ==
    args.do_train =>
        /\ CountsUp(effects.saved)
        /\ pc \in {"epoch", "batch", "save"} =>
              /\ Len(effects.saved) = train.epoch
              /\ train.epoch = train.train_epoch
              /\ out_dir.checkpoints = Range(effects.saved)
        /\ pc = "batch" => train.epoch < Epochs
        /\ pc = "save" => train.nb_tr_steps = TrainBatches
        /\ AfterTraining =>
              /\ Len(effects.saved) = Epochs
              /\ Range(effects.saved) = 0..(Epochs - 1)
              /\ out_dir.checkpoints = 0..(Epochs - 1)

C8_Witness ==
    /\ args.do_train
    /\ pc = "done"
    /\ Epochs = 2
    /\ TrainBatches >= 2
    /\ effects.saved = <<0, 1>>
    /\ out_dir.checkpoints = {0, 1}

\* C9: with gradient_accumulation_steps = N, after s batches of epoch e
\* (each of B batches) global_step is e * (B \div N) + s \div N: the
\* optimizer has stepped exactly after the batches whose 1-based index in
\* the epoch is a multiple of N, one global_step each, with as many
\* zero_grad calls.
C9_StepEveryNthBatch ==
    pc \in {"epoch", "batch", "save"} =>
        LET N == args.gradient_accumulation_steps
            B == TrainBatches
            s == IF pc = "epoch" THEN 0 ELSE train.step
        IN  /\ N >= 1
            /\ train.global_step = train.epoch * (B \div N) + s \div N
            /\ effects.optimizer_steps = train.global_step
            /\ effects.zero_grads = train.global_step
            /\ pc = "save" => s = B

C9_Witness ==
    /\ pc = "save"
    /\ args.gradient_accumulation_steps = 2
    /\ TrainBatches = 3
    /\ train.epoch = 1
    /\ train.global_step = 2

ExpectedBlock(k) ==
    [cur_epoch |-> k,
     eval_AUC |-> CalAUC([i \in 1..eval.n_dev |-> <<k, i>>]),
     eval_counts |-> eval.n_dev,
     test_AUC |-> CalAUC([i \in 1..eval.n_test |-> <<k, i>>]),
     test_counts |-> eval.n_test]

NewBlocks ==
    SubSeq(out_dir.eval_results, Len(AtStart.eval_results) + 1,
           Len(out_dir.eval_results))

\* C10: eval_results.txt is what it held when the run started followed by
\* one block per checkpoint evaluated so far, in epoch order 0, 1, ...;
\* each block holds cur_epoch, eval_AUC, eval_counts, test_AUC and
\* test_counts, with eval_counts the number of dev examples and test_counts
\* the number of test examples, every example scored once by that
\* checkpoint.
C10_ResultBlocks ==
    /\ Len(out_dir.eval_results) >= Len(AtStart.eval_results)
    /\ SubSeq(out_dir.eval_results, 1, Len(AtStart.eval_results))
          = AtStart.eval_results
    /\ Len(NewBlocks) = eval.cur_epoch
    /\ \A j \in 1..Len(NewBlocks) :
          /\ DOMAIN NewBlocks[j] =
                {"cur_epoch", "eval_AUC", "eval_counts", "test_AUC", "test_counts"}
          /\ NewBlocks[j] = ExpectedBlock(j - 1)

C10_Witness ==
    /\ pc = "done"
    /\ AtStart.eval_results # <<>>
    /\ Len(NewBlocks) = 2
    /\ eval.n_dev = 3
    /\ eval.n_test = 1
    /\ args.eval_batch_size = 2

\* C12: at every optimizer step the learning-rate multiplier
\* warmup_linear(global_step / t_total, warmup_proportion) is defined and in
\* [0, 1]: before a batch that steps the optimizer t_total is positive and
\* global_step is at most t_total, and the multiplier last computed is
\* between 0 and 1.
C12_MultiplierInUnitInterval ==
    /\ (pc = "batch" /\ train.step < TrainBatches
                     /\ (train.step + 1) % args.gradient_accumulation_steps = 0)
          => (train.t_total > 0 /\ train.global_step <= train.t_total)
    /\ 0 <= train.lr_multiplier[1]
    /\ train.lr_multiplier[1] <= train.lr_multiplier[2]

Training ==
    pc \in {"check_gas", "check_mode", "check_dir", "check_task", "load_train",
            "prepare", "epoch", "batch", "save"}

Evaluating == pc \in {"eval_epoch", "eval_batch", "test_batch", "done"}

\* C17: in a run with do_train and do_eval, evaluation and training never
\* interleave and every checkpoint loaded was written by this run: nothing
\* is loaded while training runs, evaluation runs only once all
\* int(num_train_epochs) snapshots are saved, no load misses its file, and
\* at the end the indices loaded are the indices written.
C17_EvalAfterTraining ==
    (args.do_train /\ args.do_eval) =>
        /\ Training => (effects.loaded = <<>> /\ eval = NoEval)
        /\ Evaluating =>
              /\ effects.saved = [k \in 1..Epochs |-> k - 1]
              /\ ~ListDirNonEmpty(AtStart)
        /\ Range(effects.loaded) \subseteq Range(effects.saved)
        /\ CountsUp(effects.loaded)
        /\ raised # "FileNotFoundError"
        /\ pc = "done" =>
              /\ Range(effects.loaded) = Range(effects.saved)
              /\ Range(effects.loaded) = 0..(Epochs - 1)

C17_Witness ==
    /\ args.do_train
    /\ args.do_eval
    /\ pc = "done"
    /\ effects.saved = <<0, 1>>
    /\ effects.loaded = <<0, 1>>

\* C18: every batch's gradient is applied by an optimizer step of its own
\* epoch: when an epoch's snapshot is saved, and when the next epoch
\* begins, no accumulated gradient is left un-applied.
C18_NoGradientLeft ==
    pc \in {"save", "epoch"} => train.pending_grads = 0

\* C20: a run rejected by argument validation leaves the output directory
\* as it was: neither created nor modified.
C20_RejectedRunLeavesDir ==
    (pc = "raised" /\ raised = "ValueError") => out_dir = AtStart

(***************************************************************************)
(* The specifications: each runs one part and leaves the variables         *)
(* of the other parts at rest.                                             *)
(***************************************************************************)
ConvertInit == ConvInit /\ ProcIdle /\ MainIdle

ConvertNext ==
    \/ FeaturesTokenize /\ UNCHANGED <<procVars, mainVars>>
    \/ TruncateStep /\ UNCHANGED <<procVars, mainVars>>
    \/ FeaturesEmit /\ UNCHANGED <<procVars, mainVars>>
    \/ RelevanceTokenize /\ UNCHANGED <<procVars, mainVars>>
    \/ RelevanceEmit /\ UNCHANGED <<procVars, mainVars>>

SpecConvert == ConvertInit /\ [][ConvertNext]_vars

\* The conversion of a pair by convert_examples_to_features, run to its end:
\* the code is sequential, so a step that can be taken is taken.
PairInit == ConvertInit /\ converter = "features" /\ text_b_given

PairNext ==
    \/ FeaturesTokenize /\ UNCHANGED <<procVars, mainVars>>
    \/ TruncateStep /\ UNCHANGED <<procVars, mainVars>>
    \/ FeaturesEmit /\ UNCHANGED <<procVars, mainVars>>

SpecPairFair == PairInit /\ [][PairNext]_vars /\ WF_vars(PairNext)

ProcessorInit == ProcInit /\ ConvIdle /\ MainIdle

ProcessorNext ==
    \/ ReadTsv /\ UNCHANGED <<convVars, mainVars>>
    \/ CreateExamplesStep /\ UNCHANGED <<convVars, mainVars>>
    \/ CreateExamplesReturn /\ UNCHANGED <<convVars, mainVars>>

SpecProcessor == ProcessorInit /\ [][ProcessorNext]_vars

Init == MainInit /\ ConvIdle /\ ProcIdle

Next ==
    \/ CheckGradAccum /\ UNCHANGED <<convVars, procVars>>
    \/ CheckMode /\ UNCHANGED <<convVars, procVars>>
    \/ CheckOutputDir /\ UNCHANGED <<convVars, procVars>>
    \/ CheckTask /\ UNCHANGED <<convVars, procVars>>
    \/ LoadTrainExamples /\ UNCHANGED <<convVars, procVars>>
    \/ PrepareModel /\ UNCHANGED <<convVars, procVars>>
    \/ EpochBegin /\ UNCHANGED <<convVars, procVars>>
    \/ TrainBatch /\ UNCHANGED <<convVars, procVars>>
    \/ EpochBatchesDone /\ UNCHANGED <<convVars, procVars>>
    \/ SaveModel /\ UNCHANGED <<convVars, procVars>>
    \/ EvalSetup /\ UNCHANGED <<convVars, procVars>>
    \/ LoadCheckpoint /\ UNCHANGED <<convVars, procVars>>
    \/ EvalBatch /\ UNCHANGED <<convVars, procVars>>
    \/ EvalBatchesDone /\ UNCHANGED <<convVars, procVars>>
    \/ TestBatch /\ UNCHANGED <<convVars, procVars>>
    \/ WriteResult /\ UNCHANGED <<convVars, procVars>>

Spec == Init /\ [][Next]_vars

=============================================================================
